---- MODULE Spec2Model ----
(***************************************************************************)
(* The event-delivery pipeline of the analytics tracker: EventQueue        *)
(* (src/src/APIClient.ts, lines 217-459) driving APIClient.sendEvent       *)
(* (lines 27-62) over localStorage, timers and XHR completions.            *)
(*                                                                         *)
(* One macrotask of the JavaScript event loop is one action: a public call *)
(* (enqueue, process, flush, the constructor), the completion of one       *)
(* reliable send, the firing of one backoff timer.  Everything a handler   *)
(* does up to its next suspension point (the microtasks it triggers        *)
(* included) belongs to the same action.                                   *)
(***************************************************************************)
EXTENDS Integers, Sequences, FiniteSets, TLC

\* ------------------------------------------------------------------ bounds
MaxEvents == 2
MaxTracked == 3       \* events a Tracker hands to its queue
MaxRestarts == 1

MaxTime == 6          \* the clock stops after this many ticks
MaxIdleTimeout == 2   \* config.idle_timeout is undefined (-1) or 1..MaxIdleTimeout ticks

\* ------------------------------------------------------- program constants
DEFAULT_IDLE_TIMEOUT == 3            \* ticks of 10 s: 30000 ms
DEFAULT_MAX_RETRIES == 3
maxRetries == DEFAULT_MAX_RETRIES    \* this.maxRetries, the constructor's default
RETRY_DELAYS == <<1, 2, 4>>          \* seconds: [1000, 2000, 4000] ms
STORAGE_KEY == "analytics_event_queue"

EventId == 1..(IF MaxTracked > MaxEvents THEN MaxTracked ELSE MaxEvents)
Left == 0..RETRY_DELAYS[Len(RETRY_DELAYS)]

VARIABLES
  live,        \* an EventQueue has been constructed on the current page
  queue,       \* this.queue: the ids of the QueuedEvents, head first
  retries,     \* event.retries of the QueuedEvent objects still referenced
  processing,  \* this.processing
  timers,      \* pending setTimeout callbacks of retry(): how many are due
               \* in 0, 1, 2, ... seconds
  loopWait,    \* the event whose reliable send process() is awaiting, or 0
  timerWait,   \* per event, the pending reliable sends issued by timer callbacks
  sent,        \* per referenced event, the reliable sends issued for it
  accepted,    \* per referenced event, the sends the transport accepted
  beacons,     \* the events the last step's flush() submitted, in call order
  flushFailed, \* those of them whose best-effort submission failed
  order,       \* the events pushed on this.queue, in push order
  loaded,      \* the events the constructor took from storage
  storage,     \* localStorage[STORAGE_KEY]: NoKey or a stored text
  lsMode,      \* "ok" | "quota" (setItem throws) | "unavailable"
  warned,      \* console.warn emitted by the last step: <<kind, event or 0>>
  threw,       \* the last step let an exception escape to its caller
  delivered,   \* ids the transport has accepted (any page, any mode), as
               \* long as the event is referenced or stored
  nextId,      \* next fresh event id (generateEventId)
  restarts     \* page loads after the first one

\* APIClient.sendEvent, one call at a time
VARIABLES
  env,         \* the host: navigator, what sendBeacon does, what XHR does
  call         \* the sendEvent call: its mode, the requests it made, its promise

sendVars == <<env, call>>

\* Tracker construction and its PageStateManager
VARIABLES
  config,      \* the TrackerConfig handed to new Tracker(config)
  tracker,     \* "none" | "threw" (configuration error) | "built"
  created,     \* what the Tracker constructor has created, in creation order
  clock,       \* Date.now(), in ticks
  page,        \* the PageStateManager: this.state, idleTimeout, pageStartTime
               \* and the pending idle timer (ticks left, -1 when none)
  credit,      \* the ticks during which the page was active and not idle
  signalled,   \* a host or activity signal has reached the PageStateManager
  rearmAt,     \* the clock at the last of: construction, an activity signal,
               \* a handler that left the lifecycle state active
  destroyed    \* PageStateManager.destroy() has been called

pageVars ==
  <<config, tracker, created, clock, page, credit, signalled, rearmAt,
    destroyed>>

\* the Tracker's own fields and the events it has handed to its queue
VARIABLES
  lastEventId, \* this.lastEventId, 0 for null
  sessionData, \* this.sessionData: the keys set
  projectData, \* this.projectData: the keys set
  visitorData, \* this.visitorData: the keys set
  data,        \* per queued event, the endpoint and the event it was queued with
  calls,       \* the calls the last Tracker step made, in their order
  escaped,     \* the last Tracker step let an exception out to the host
  registered,  \* what the Tracker has registered with the window and not
               \* taken back: its interval and its two unload listeners
  teardown     \* the teardown signals the window has fired in the page
               \* teardown under way

trackerVars ==
  <<lastEventId, sessionData, projectData, visitorData, data, calls, escaped,
    registered, teardown>>

vars == <<live, queue, retries, processing, timers, loopWait, timerWait,
          sent, accepted, beacons, flushFailed, order, loaded, storage,
          lsMode, warned, threw, delivered, nextId, restarts, sendVars, pageVars,
          trackerVars>>

\* --------------------------------------------------------- stored texts
NoKey == [kind |-> "nokey"]              \* getItem returns null
EmptyText == [kind |-> "empty"]          \* the key holds ''
Garbage == [kind |-> "garbage"]          \* text JSON.parse rejects
NonIterable == [kind |-> "noniterable"]  \* JSON that is no array: {}, 5, null

\* JSON.stringify(this.queue): the array of the queued event records
Stringify(q, r) ==
  [kind |-> "array",
   items |-> [i \in 1..Len(q) |-> [id |-> q[i], retries |-> r[q[i]]]]]

\* JSON.parse(serialized) followed by the spread in this.queue.push(...events)
\* : either the events to append, or an exception
ParseEvents(text) ==
  IF text.kind = "array" THEN [exc |-> FALSE, events |-> text.items]
  ELSE [exc |-> TRUE, events |-> <<>>]

\* the events a stored text holds (none when it is no array)
StoredEvents(text) == IF text.kind = "array" THEN text.items ELSE <<>>

StoredIds(text) == {StoredEvents(text)[i].id : i \in 1..Len(StoredEvents(text))}

\* ----------------------------------------------------- the machine record
\* A QueuedEvent object is referenced while it is in this.queue or a pending
\* processNext() holds it.  What the last step left about events that are no
\* longer referenced (their retry counter, the sends issued and accepted) and
\* what it reported (warnings, the submissions of flush(), an exception) is
\* kept for one state, so that a property can read it, and dropped when the
\* next step starts.
Referenced(s, e) ==
  \/ \E i \in 1..Len(s.queue) : s.queue[i] = e
  \/ s.loopWait = e
  \/ s.timerWait[e] > 0

Collect(s) ==
  [s EXCEPT
     !.retries = [e \in EventId |-> IF Referenced(s, e) THEN @[e] ELSE 0],
     !.sent = [e \in EventId |-> IF Referenced(s, e) THEN @[e] ELSE 0],
     !.accepted = [e \in EventId |-> IF Referenced(s, e) THEN @[e] ELSE 0],
     !.delivered = {e \in @ : Referenced(s, e) \/ e \in StoredIds(s.storage)},
     !.beacons = <<>>,
     !.flushFailed = {},
     !.warned = {},
     !.exc = FALSE]

Cur ==
  Collect(
    [queue |-> queue, retries |-> retries, processing |-> processing,
     timers |-> timers, loopWait |-> loopWait, timerWait |-> timerWait,
     sent |-> sent, accepted |-> accepted, beacons |-> beacons,
     flushFailed |-> flushFailed, order |-> order, loaded |-> loaded,
     storage |-> storage, warned |-> warned, exc |-> threw,
     delivered |-> delivered, nextId |-> nextId])

\* console.warn, kept for the warnings the specification speaks about
Warn(s, kind, e) == [s EXCEPT !.warned = @ \cup {<<kind, e>>}]

\* a pop() for the shift(): the tail is removed
ShiftTail(q) == IF q = <<>> THEN q ELSE SubSeq(q, 1, Len(q) - 1)

\* this.queue.shift()
Shift(q) == IF q = <<>> THEN q ELSE Tail(q)

\* ------------------------------------------------------------ localStorage
\* localStorage.setItem(STORAGE_KEY, text): throws when localStorage is
\* undefined and when the quota is exceeded
setItem(s, text) ==
  IF lsMode = "ok" THEN [s EXCEPT !.storage = text] ELSE [s EXCEPT !.exc = TRUE]

\* a constructor that leaves the stored snapshot under the key
removeItemKeeps(s) == s

\* localStorage.removeItem(STORAGE_KEY)
removeItem(s) ==
  IF lsMode = "unavailable" THEN [s EXCEPT !.exc = TRUE]
  ELSE [s EXCEPT !.storage = NoKey]

\* a save without the availability guard and without the try/catch
saveUnguarded(s) == setItem(s, Stringify(s.queue, s.retries))

saveToLocalStorage(s) ==
  IF lsMode = "unavailable" THEN Warn(s, "ls-unavailable", 0)
  ELSE LET r == setItem(s, Stringify(s.queue, s.retries))
       IN  IF r.exc THEN Warn([r EXCEPT !.exc = FALSE], "save-failed", 0) ELSE r

\* ------------------------------------------------------------- the drain
\* processNext() up to its await: the reliable send of the head is issued
processNext(s, by) ==
  IF s.queue = <<>> THEN s
  ELSE LET e == Head(s.queue)
       IN  IF by = "loop"
           THEN [s EXCEPT !.sent[e] = @ + 1, !.loopWait = e]
           ELSE [s EXCEPT !.sent[e] = @ + 1, !.timerWait[e] = @ + 1]

\* the while loop of process(), entered or resumed, up to its next await
processLoop(s) ==
  IF s.exc THEN [s EXCEPT !.exc = FALSE, !.processing = FALSE]
  ELSE IF s.queue # <<>> THEN processNext(s, "loop")
  ELSE [s EXCEPT !.processing = FALSE]

\* a process() without the processing guard
processUnguarded(s) ==
  IF s.queue # <<>>
  THEN [s EXCEPT !.processing = TRUE, !.sent[Head(s.queue)] = @ + 1,
                 !.loopWait = Head(s.queue)]
  ELSE s

process(s) ==
  IF s.processing THEN s ELSE processLoop([s EXCEPT !.processing = TRUE])

RetryDelay(n) ==
  IF n <= Len(RETRY_DELAYS) THEN RETRY_DELAYS[n]
  ELSE RETRY_DELAYS[Len(RETRY_DELAYS)]

retry(s, e) ==
  LET s1 == [s EXCEPT !.retries[e] = @ + 1]
      n  == s1.retries[e]
  IN  IF n >= maxRetries
      THEN saveToLocalStorage(
             Warn([s1 EXCEPT !.queue = Shift(@)], "exhausted", e))
      ELSE [s1 EXCEPT !.timers[RetryDelay(n)] = @ + 1]

\* processNext() after its await: the send for e was accepted (ok) or rejected
processNextDone(s, e, ok) ==
  IF ok
  THEN [s EXCEPT !.queue = Shift(@),
                 !.accepted[e] = @ + 1,
                 !.delivered = @ \cup {e}]
  ELSE retry(s, e)

\* the completion of the send process() awaits, and the loop resumed
loopSendDone(s, ok) ==
  processLoop(processNextDone([s EXCEPT !.loopWait = 0], s.loopWait, ok))

\* the completion of a send a timer callback issued for e; a failure of
\* processNext() ends in the callback's .catch
timerSendDone(s, e, ok) ==
  LET s1 == processNextDone([s EXCEPT !.timerWait[e] = @ - 1], e, ok)
  IN  [s1 EXCEPT !.exc = FALSE]

\* the setTimeout callback of retry()
timerFired(s) ==
  LET s1 == [s EXCEPT !.timers[0] = @ - 1]
  IN  IF s1.processing THEN processNext(s1, "timer") ELSE s1

\* an enqueue() that puts the event at the head (unshift for push)
enqueueAtHead(s) ==
  LET s1 == [s EXCEPT !.queue = <<s.nextId>> \o @,
                      !.order = Append(@, s.nextId),
                      !.retries[s.nextId] = 0,
                      !.nextId = @ + 1]
  IN  IF ~s1.processing
      THEN [s1 EXCEPT !.processing = TRUE, !.sent[Head(s1.queue)] = @ + 1,
                      !.loopWait = Head(s1.queue)]
      ELSE s1

\* ---------------------------------------------------------- public calls
\* an enqueue() that spools the queue on every push, with no guard around
\* the write
enqueueSpooling(s) ==
  LET s1 == [s EXCEPT !.queue = Append(@, s.nextId),
                      !.order = Append(@, s.nextId),
                      !.retries[s.nextId] = 0,
                      !.nextId = @ + 1]
      s2 == setItem(s1, Stringify(s1.queue, s1.retries))
  IN  IF s2.exc THEN s2
      ELSE IF ~s2.processing THEN process(s2) ELSE s2

enqueue(s) ==
  LET s1 == [s EXCEPT !.queue = Append(@, s.nextId),
                      !.order = Append(@, s.nextId),
                      !.retries[s.nextId] = 0,
                      !.nextId = @ + 1]
  IN  IF ~s1.processing THEN process(s1) ELSE s1

\* a sendEvent() that throws in the caller's turn when the submission fails
sendEventThrowsOnFailure(res) == res = "fail"

\* sendEvent is an async function: whatever fails inside it rejects the
\* promise it returns, the call itself never throws
sendEventThrows(res) == FALSE

\* sendEvent(endpoint, data, true): sendBeacon took the payload, or the
\* blocking XHR fallback succeeded, or the fallback failed too
BeaconResults == {"beacon", "xhr", "fail"}

\* the events flush() pushes back, from the catch around sendEvent
Requeued(q, res) ==
  LET idx == SelectSeq([i \in 1..Len(q) |-> i], LAMBDA i : sendEventThrows(res[i]))
  IN  [k \in 1..Len(idx) |-> q[idx[k]]]

\* a flush() whose loop stops one event short
flushStopsShort(s, res) ==
  LET q == s.queue
  IN  [s EXCEPT
         !.queue = <<>>,
         !.beacons = @ \o SubSeq(q, 1, Len(q) - 1),
         !.flushFailed = @ \cup {q[i] : i \in {j \in 1..(Len(q) - 1) : res[j] = "fail"}},
         !.delivered = @ \cup {q[i] : i \in {j \in 1..(Len(q) - 1) : res[j] # "fail"}}]

flush(s, res) ==
  LET q  == s.queue
      s1 == [s EXCEPT
               !.queue = Requeued(q, res),
               !.beacons = @ \o q,
               !.flushFailed = @ \cup {q[i] : i \in {j \in 1..Len(q) : res[j] = "fail"}},
               !.delivered = @ \cup {q[i] : i \in {j \in 1..Len(q) : res[j] # "fail"}}]
  IN  IF s1.queue # <<>> THEN saveToLocalStorage(s1) ELSE s1

loadFromLocalStorage(s) ==
  IF lsMode = "unavailable" THEN Warn(s, "ls-unavailable", 0)
  ELSE IF s.storage.kind \in {"nokey", "empty"} THEN s
  ELSE LET p == ParseEvents(s.storage)
       IN  IF p.exc
           THEN LET r == removeItem(Warn(s, "load-failed", 0))
                IN  [r EXCEPT !.exc = FALSE]
           ELSE LET ev == p.events
                    s1 == [s EXCEPT
                             !.queue = @ \o [i \in 1..Len(ev) |-> ev[i].id],
                             !.order = @ \o [i \in 1..Len(ev) |-> ev[i].id],
                             !.loaded = [i \in 1..Len(ev) |-> ev[i].id],
                             !.retries = [x \in EventId |->
                                IF \E i \in 1..Len(ev) : ev[i].id = x
                                THEN (CHOOSE it \in {ev[i] : i \in 1..Len(ev)} : it.id = x).retries
                                ELSE @[x]]]
                    s2 == removeItem(s1)
                IN  IF Len(ev) > 0 /\ ~s2.processing THEN process(s2) ELSE s2

\* Tracker.track(event, properties): the event is built and handed to
\* eventQueue.enqueue('/track/', ...)
track(s) == enqueue(s)

\* Tracker.identify(properties): the identify event is built and handed to
\* eventQueue.enqueue('/identify', ...)
identify(s) == enqueue(s)

\* the fields of a page on which no EventQueue exists (yet)
Blank(text, dlv, nid) ==
  [queue |-> <<>>, retries |-> [x \in EventId |-> 0], processing |-> FALSE,
   timers |-> [l \in Left |-> 0], loopWait |-> 0,
   timerWait |-> [x \in EventId |-> 0], sent |-> [x \in EventId |-> 0],
   accepted |-> [x \in EventId |-> 0], beacons |-> <<>>, flushFailed |-> {},
   order |-> <<>>, loaded |-> <<>>, storage |-> text,
   warned |-> {}, exc |-> FALSE, delivered |-> dlv, nextId |-> nid]

\* new EventQueue(apiClient)
constructor(s) == loadFromLocalStorage(s)

\* ------------------------------------------------------------ the actions
Apply(s) ==
  /\ queue' = s.queue
  /\ retries' = s.retries
  /\ processing' = s.processing
  /\ timers' = s.timers
  /\ loopWait' = s.loopWait
  /\ timerWait' = s.timerWait
  /\ sent' = s.sent
  /\ accepted' = s.accepted
  /\ beacons' = s.beacons
  /\ flushFailed' = s.flushFailed
  /\ order' = s.order
  /\ loaded' = s.loaded
  /\ storage' = s.storage
  /\ warned' = s.warned
  /\ threw' = s.exc
  /\ delivered' = s.delivered
  /\ nextId' = s.nextId

\* what an earlier page can have left under the key: nothing, a text that is
\* no snapshot, or a snapshot it wrote
InitSnapshots ==
  { [kind |-> "array", items |-> <<>>],
    [kind |-> "array", items |-> <<[id |-> 1, retries |-> 0]>>] }

InitStorages == {NoKey, EmptyText, Garbage, NonIterable} \cup InitSnapshots

\* no sendEvent call is under way; the host offers sendBeacon and XHR works
NoCall ==
  [phase |-> "idle", useBeacon |-> FALSE, beacon |-> 0, syncXhr |-> 0,
   asyncXhr |-> 0, threw |-> FALSE]

PlainEnv ==
  [navigator |-> "beacon", sendBeacon |-> "true", xhrThrows |-> FALSE,
   syncStatus |-> 200]

\* the page before new EventQueue()
QueueInit ==
  /\ live = FALSE
  /\ lsMode \in {"ok", "quota", "unavailable"}
  /\ storage \in InitStorages
  /\ lsMode # "ok" => storage = NoKey
  /\ nextId = Len(StoredEvents(storage)) + 1
  /\ queue = <<>>
  /\ retries = [x \in EventId |-> 0]
  /\ processing = FALSE
  /\ timers = [l \in Left |-> 0]
  /\ loopWait = 0
  /\ timerWait = [x \in EventId |-> 0]
  /\ sent = [x \in EventId |-> 0]
  /\ accepted = [x \in EventId |-> 0]
  /\ beacons = <<>>
  /\ flushFailed = {}
  /\ order = <<>>
  /\ loaded = <<>>
  /\ warned = {}
  /\ threw = FALSE
  /\ delivered = {}
  /\ restarts = 0

\* no PageStateManager exists (yet)
NoPage ==
  [state |-> "none", stateStartTime |-> 0, activeDuration |-> 0,
   scrollDepth |-> 0, maxScrollDepth |-> 0,
   isIdle |-> FALSE, idleStartTime |-> -1, idleTimeout |-> 0,
   pageStartTime |-> 0, idleTimer |-> -1, strayTimers |-> {},
   listeners |-> {}, binds |-> 0]

\* an event the Tracker has not queued
NoData ==
  [event |-> "none", endpoint |-> "none", id |-> 0, s |-> {}, p |-> {},
   u |-> {}, idle_start |-> -1]

\* the field initialisers of the Tracker
TrackerFields ==
  /\ lastEventId = 0
  /\ sessionData = {}
  /\ projectData = {}
  /\ visitorData = {}
  /\ data = [e \in EventId |-> NoData]
  /\ calls = <<>>
  /\ escaped = FALSE
  /\ registered = {}
  /\ teardown = {}

\* the script has not called new Tracker(config)
PageInit ==
  /\ TrackerFields
  /\ tracker = "none"
  /\ created = <<>>
  /\ clock = 0
  /\ page = NoPage
  /\ credit = 0
  /\ signalled = FALSE
  /\ rearmAt = 0
  /\ destroyed = FALSE

PlainConfig ==
  [project |-> "set", endpoint |-> "set", idle_timeout |-> -1]

Init ==
  /\ env = PlainEnv
  /\ call = NoCall
  /\ config = PlainConfig
  /\ PageInit
  /\ QueueInit

\* the page's script runs: new EventQueue(apiClient)
Construct ==
  /\ ~live
  /\ live' = TRUE
  /\ Apply(constructor(Cur))
  /\ UNCHANGED <<lsMode, restarts, sendVars, pageVars, trackerVars>>

Enqueue ==
  /\ live
  /\ nextId <= MaxEvents
  /\ Apply(enqueue(Cur))
  /\ UNCHANGED <<live, lsMode, restarts, sendVars, pageVars, trackerVars>>

Track ==
  /\ live
  /\ nextId <= MaxEvents
  /\ Apply(track(Cur))
  /\ UNCHANGED <<live, lsMode, restarts, sendVars, pageVars, trackerVars>>

Identify ==
  /\ live
  /\ nextId <= MaxEvents
  /\ Apply(identify(Cur))
  /\ UNCHANGED <<live, lsMode, restarts, sendVars, pageVars, trackerVars>>

Process ==
  /\ live
  /\ Apply(process(Cur))
  /\ UNCHANGED <<live, lsMode, restarts, sendVars, pageVars, trackerVars>>

Flush ==
  /\ live
  /\ \E res \in [1..Len(queue) -> BeaconResults] : Apply(flush(Cur, res))
  /\ UNCHANGED <<live, lsMode, restarts, sendVars, pageVars, trackerVars>>

LoopSendAccept ==
  /\ live
  /\ loopWait # 0
  /\ Apply(loopSendDone(Cur, TRUE))
  /\ UNCHANGED <<live, lsMode, restarts, sendVars, pageVars, trackerVars>>

LoopSendReject ==
  /\ live
  /\ loopWait # 0
  /\ Apply(loopSendDone(Cur, FALSE))
  /\ UNCHANGED <<live, lsMode, restarts, sendVars, pageVars, trackerVars>>

TimerSendAccept ==
  /\ live
  /\ \E e \in EventId : timerWait[e] > 0 /\ Apply(timerSendDone(Cur, e, TRUE))
  /\ UNCHANGED <<live, lsMode, restarts, sendVars, pageVars, trackerVars>>

TimerSendReject ==
  /\ live
  /\ \E e \in EventId : timerWait[e] > 0 /\ Apply(timerSendDone(Cur, e, FALSE))
  /\ UNCHANGED <<live, lsMode, restarts, sendVars, pageVars, trackerVars>>

TimerFire ==
  /\ live
  /\ timers[0] > 0
  /\ Apply(timerFired(Cur))
  /\ UNCHANGED <<live, lsMode, restarts, sendVars, pageVars, trackerVars>>

\* one second passes: no timer is due
Tick ==
  /\ timers[0] = 0
  /\ \E l \in Left : timers[l] > 0
  /\ Apply([Cur EXCEPT !.timers =
              [l \in Left |-> IF l + 1 \in Left THEN timers[l + 1] ELSE 0]])
  /\ UNCHANGED <<live, lsMode, restarts, sendVars, pageVars, trackerVars>>

\* the page is left: its queue, its timers and its pending sends are gone,
\* localStorage stays
Unload ==
  /\ live
  /\ restarts < MaxRestarts
  /\ restarts' = restarts + 1
  /\ live' = FALSE
  /\ LET s == Blank(storage, {e \in delivered : e \in StoredIds(storage)}, nextId)
     IN  Apply(s)
  /\ UNCHANGED <<lsMode, sendVars, pageVars, trackerVars>>

Next ==
  \/ Construct
  \/ Enqueue
  \/ Track
  \/ Identify
  \/ Process
  \/ Flush
  \/ LoopSendAccept
  \/ LoopSendReject
  \/ TimerSendAccept
  \/ TimerSendReject
  \/ TimerFire
  \/ Tick
  \/ Unload

Spec == Init /\ [][Next]_vars

\* The queue of one page (working storage, no snapshot or a snapshot of one
\* event), with a transport that settles every reliable send it is handed:
\* the promise of sendEvent() resolves or rejects, and the continuation of
\* the await runs.
DrainInit ==
  /\ Init
  /\ lsMode = "ok"
  /\ storage \in {NoKey, [kind |-> "array", items |-> <<[id |-> 1, retries |-> 0]>>]}

DrainNext ==
  \/ Construct
  \/ Enqueue
  \/ Flush
  \/ LoopSendAccept
  \/ LoopSendReject
  \/ TimerSendAccept
  \/ TimerSendReject
  \/ TimerFire
  \/ Tick

\* the send the drain loop awaits settles, one way or the other
LoopSendSettles ==
  /\ live
  /\ loopWait # 0
  /\ \E ok \in BOOLEAN : \E s \in {loopSendDone(Cur, ok)} : Apply(s)
  /\ UNCHANGED <<live, lsMode, restarts, sendVars, pageVars, trackerVars>>

\* a send started by a retry timer settles, one way or the other
TimerSendSettles ==
  /\ live
  /\ \E e \in EventId :
        /\ timerWait[e] > 0
        /\ \E ok \in BOOLEAN : \E s \in {timerSendDone(Cur, e, ok)} : Apply(s)
  /\ UNCHANGED <<live, lsMode, restarts, sendVars, pageVars, trackerVars>>

DrainSpec ==
  /\ DrainInit
  /\ [][DrainNext]_vars
  /\ WF_vars(LoopSendSettles)
  /\ WF_vars(TimerSendSettles)

\* The queue with a transport that accepts every attempt and a caller that
\* only enqueues (and may call process()): no rejection, no flush().
NextAccept ==
  \/ Construct
  \/ Enqueue
  \/ Process
  \/ LoopSendAccept
  \/ Unload

SpecAccept == Init /\ [][NextAccept]_vars

\* ------------------------------------------------- APIClient.sendEvent
\* xhr.status values: below, at the ends of, inside and above 200..299
Statuses == {0, 199, 200, 204, 299, 300, 404, 500}

\* the hosts: navigator missing, navigator without sendBeacon, or sendBeacon
\* returning true, returning false or throwing; XMLHttpRequest throwing on
\* construction/open/send or not; the status a blocking request ends with
Envs ==
  {h \in [navigator : {"undefined", "nobeacon", "beacon"},
          sendBeacon : {"true", "false", "throws"},
          xhrThrows : BOOLEAN,
          syncStatus : Statuses] :
     h.navigator # "beacon" => h.sendBeacon = "false"}

\* a status test that takes 300 for a success
successStatusTo300(status) == status >= 200 /\ status <= 300

\* xhr.status >= 200 && xhr.status < 300
successStatus(status) == status >= 200 /\ status < 300

\* a sendViaBeacon that reports the payload queued whenever sendBeacon exists
sendViaBeaconTrusting(h, c) ==
  IF h.navigator # "beacon" THEN [ok |-> FALSE, call |-> c]
  ELSE [ok |-> TRUE, call |-> [c EXCEPT !.beacon = @ + 1]]

\* sendViaBeacon(url, data): true iff navigator.sendBeacon took the payload
sendViaBeacon(h, c) ==
  IF h.navigator # "beacon" THEN [ok |-> FALSE, call |-> c]
  ELSE [ok |-> h.sendBeacon = "true", call |-> [c EXCEPT !.beacon = @ + 1]]

\* sendViaXHR(endpoint, data, synchronous), up to the return of its promise
sendViaXHR(h, c, synchronous) ==
  LET c1 == IF synchronous THEN [c EXCEPT !.syncXhr = @ + 1]
            ELSE [c EXCEPT !.asyncXhr = @ + 1]
  IN  IF h.xhrThrows THEN [c1 EXCEPT !.phase = "rejected"]
      ELSE IF synchronous
           THEN [c1 EXCEPT !.phase = IF successStatus(h.syncStatus)
                                     THEN "resolved" ELSE "rejected"]
           ELSE [c1 EXCEPT !.phase = "pending"]

\* sendEvent(endpoint, data, useBeacon), up to its first suspension
sendEvent(h, useBeacon) ==
  LET c == [NoCall EXCEPT !.useBeacon = useBeacon]
  IN  IF useBeacon
      THEN LET b == sendViaBeacon(h, c)
           IN  IF b.ok THEN [b.call EXCEPT !.phase = "resolved"]
               ELSE sendViaXHR(h, b.call, TRUE)
      ELSE sendViaXHR(h, c, FALSE)

\* xhr.onload of the asynchronous request
onload(c, status) ==
  [c EXCEPT !.phase = IF successStatus(status) THEN "resolved" ELSE "rejected"]

\* xhr.onerror
onerror(c) == [c EXCEPT !.phase = "rejected"]

\* xhr.ontimeout
ontimeout(c) == [c EXCEPT !.phase = "rejected"]

SendInit ==
  /\ env \in Envs
  /\ call = NoCall
  /\ config = PlainConfig
  /\ PageInit
  /\ QueueInit
  /\ lsMode = "ok"
  /\ storage = NoKey

queueVars ==
  <<live, queue, retries, processing, timers, loopWait, timerWait, sent,
    accepted, beacons, flushFailed, order, loaded, storage, lsMode, warned,
    threw, delivered, nextId, restarts>>

SendEvent(useBeacon) ==
  /\ call.phase = "idle"
  /\ call' = sendEvent(env, useBeacon)
  /\ UNCHANGED <<env, queueVars, pageVars, trackerVars>>

XhrLoad(status) ==
  /\ call.phase = "pending"
  /\ call' = onload(call, status)
  /\ UNCHANGED <<env, queueVars, pageVars, trackerVars>>

XhrError ==
  /\ call.phase = "pending"
  /\ call' = onerror(call)
  /\ UNCHANGED <<env, queueVars, pageVars, trackerVars>>

XhrTimeout ==
  /\ call.phase = "pending"
  /\ call' = ontimeout(call)
  /\ UNCHANGED <<env, queueVars, pageVars, trackerVars>>

SendNext ==
  \/ \E useBeacon \in BOOLEAN : SendEvent(useBeacon)
  \/ \E status \in Statuses : XhrLoad(status)
  \/ XhrError
  \/ XhrTimeout

SendSpec == SendInit /\ [][SendNext]_vars

\* --------------------------------------------------- PageStateManager
\* document.visibilityState
Visibilities == {"visible", "hidden", "prerender"}

\* the event types handlePageLifecycle is registered for
LifecycleTypes == {"freeze", "resume", "pageshow", "pagehide"}

\* startIdleTimer(): this.idleTimer = window.setTimeout(..., this.idleTimeout).
\* idleTimer is the time left on the timeout this.idleTimer names (-1: it
\* names none that is pending); a pending timeout the field no longer names
\* stays with the host, in strayTimers, until it fires.
startIdleTimer(p) ==
  [p EXCEPT !.idleTimer = p.idleTimeout,
            !.strayTimers = IF p.idleTimer >= 0 THEN @ \cup {p.idleTimer} ELSE @]

\* a resetIdleTimer() that starts a timer without clearing the pending one
resetIdleTimerKeeps(p) == startIdleTimer(p)

\* resetIdleTimer(): clearTimeout, then startIdleTimer()
resetIdleTimer(p) == startIdleTimer([p EXCEPT !.idleTimer = -1])

\* the listeners of setupEventListeners(), in its order: target, event type,
\* handler
Listeners ==
  <<<<"document", "visibilitychange", "handleVisibilityChange">>,
    <<"document", "freeze", "handlePageLifecycle">>,
    <<"document", "resume", "handlePageLifecycle">>,
    <<"document", "pageshow", "handlePageLifecycle">>,
    <<"document", "pagehide", "handlePageLifecycle">>,
    <<"window", "scroll", "handleScroll">>,
    <<"document", "mousedown", "handleUserActivity">>,
    <<"document", "mousemove", "handleUserActivity">>,
    <<"document", "keydown", "handleUserActivity">>,
    <<"document", "scroll", "handleUserActivity">>,
    <<"document", "touchstart", "handleUserActivity">>>>

\* the removals of destroy(), in its order
Removals ==
  <<<<"document", "visibilitychange", "handleVisibilityChange">>,
    <<"document", "freeze", "handlePageLifecycle">>,
    <<"document", "resume", "handlePageLifecycle">>,
    <<"document", "pageshow", "handlePageLifecycle">>,
    <<"document", "pagehide", "handlePageLifecycle">>,
    <<"document", "mousedown", "handleUserActivity">>,
    <<"document", "mousemove", "handleUserActivity">>,
    <<"document", "keydown", "handleUserActivity">>,
    <<"document", "scroll", "handleUserActivity">>,
    <<"document", "touchstart", "handleUserActivity">>,
    <<"window", "scroll", "handleScroll">>>>

\* this.handleX.bind(this): every call makes a new function; the n-th function
\* bind has made for handler h is <<h, n>>
bound(h, n) == <<h, n>>

\* setupEventListeners(): target.addEventListener(type, handler.bind(this))
setupEventListeners(p) ==
  [p EXCEPT !.listeners = @ \cup {<<Listeners[i][1], Listeners[i][2],
                                    bound(Listeners[i][3], p.binds + i)>>
                                      : i \in 1..Len(Listeners)},
            !.binds = @ + Len(Listeners)]

\* the host delivers an event of this type at this target to the listeners
\* registered for it
Listening(p, target, type) ==
  \E l \in p.listeners : l[1] = target /\ l[2] = type

\* new PageStateManager(idleTimeout) at time now
PageStateManager(now, idleTimeout) ==
  startIdleTimer(setupEventListeners(
    [state |-> "active", stateStartTime |-> now, activeDuration |-> 0,
     scrollDepth |-> 0, maxScrollDepth |-> 0,
     isIdle |-> FALSE, idleStartTime |-> -1, idleTimeout |-> idleTimeout,
     pageStartTime |-> now, idleTimer |-> -1, strayTimers |-> {},
     listeners |-> {}, binds |-> 0]))

\* destroy(): clearTimeout(this.idleTimer), then
\* target.removeEventListener(type, handler.bind(this)) for each removal;
\* removeEventListener takes out the listener with that very function
destroy(p) ==
  [p EXCEPT !.idleTimer = -1,
            !.listeners = @ \ {<<Removals[i][1], Removals[i][2],
                                 bound(Removals[i][3], p.binds + i)>>
                                   : i \in 1..Len(Removals)},
            !.binds = @ + Len(Removals)]

\* getDuration()
getDuration(p, now) == now - p.pageStartTime

\* a getActiveDuration() that returns the time since page load
getActiveDurationWallClock(p, now) == now - p.pageStartTime

\* getActiveDuration()
getActiveDuration(p, now) ==
  IF p.state = "active" /\ ~p.isIdle
  THEN p.activeDuration + (now - p.stateStartTime)
  ELSE p.activeDuration

\* the credit both lifecycle handlers give before they change the state
creditActive(p, now) ==
  IF p.state = "active" /\ ~p.isIdle
  THEN [p EXCEPT !.activeDuration = @ + (now - p.stateStartTime)]
  ELSE p

\* the switch of handleVisibilityChange
visibilityState(v) ==
  IF v = "visible" THEN "active" ELSE IF v = "hidden" THEN "hidden" ELSE "passive"

\* handleVisibilityChange() with document.visibilityState = v
handleVisibilityChange(p, now, v) ==
  LET p1 == creditActive(p, now)
      p2 == [p1 EXCEPT !.state = visibilityState(v), !.stateStartTime = now]
  IN  IF p2.state = "active" THEN resetIdleTimer(p2) ELSE p2

\* a switch in which pageshow has no case
lifecycleStateNoShow(old, type) ==
  IF type = "freeze" THEN "frozen"
  ELSE IF type = "resume" THEN "active"
  ELSE IF type = "pagehide" THEN "terminated"
  ELSE old

\* the switch of handlePageLifecycle
lifecycleState(old, type) ==
  IF type = "freeze" THEN "frozen"
  ELSE IF type = "resume" THEN "active"
  ELSE IF type = "pageshow" THEN "active"
  ELSE IF type = "pagehide" THEN "terminated"
  ELSE old

\* handlePageLifecycle(event) with event.type = type
handlePageLifecycle(p, now, type) ==
  LET p1 == creditActive(p, now)
      p2 == [p1 EXCEPT !.state = lifecycleState(p.state, type),
                       !.stateStartTime = now]
  IN  IF p2.state = "active" THEN resetIdleTimer(p2) ELSE p2

\* an activity handler that also takes the page for active again
handleUserActivityWakes(p) ==
  resetIdleTimer([p EXCEPT !.isIdle = FALSE, !.idleStartTime = -1,
                           !.state = "active"])

\* an activity handler that rearms the timer and leaves the idle flag alone
handleUserActivityStaysIdle(p) == resetIdleTimer(p)

\* handleUserActivity()
handleUserActivity(p) ==
  resetIdleTimer(IF p.isIdle
                 THEN [p EXCEPT !.isIdle = FALSE, !.idleStartTime = -1]
                 ELSE p)

\* a timer callback that credits the active time and keeps the old start
idleFiredKeepsStart(p, now) ==
  LET p1 == [p EXCEPT !.isIdle = TRUE, !.idleStartTime = now]
  IN  IF p1.state = "active"
      THEN [p1 EXCEPT !.activeDuration = @ + (now - p.stateStartTime)]
      ELSE p1

\* the callback of the idle timer
idleFired(p, now) ==
  LET p1 == [p EXCEPT !.isIdle = TRUE, !.idleStartTime = now]
  IN  IF p1.state = "active"
      THEN [p1 EXCEPT !.activeDuration = @ + (now - p.stateStartTime),
                      !.stateStartTime = now]
      ELSE p1

\* a timeout that is due leaves the host's timers as its callback runs: the
\* one this.idleTimer names if that one is due, else a stray one
timeoutDue(p) ==
  IF p.idleTimer = 0 THEN [p EXCEPT !.idleTimer = -1]
  ELSE [p EXCEPT !.strayTimers = @ \ {0}]

\* the pending timeouts of startIdleTimer()
PendingTimers(p) ==
  (IF p.idleTimer >= 0 THEN 1 ELSE 0) + Cardinality(p.strayTimers)

\* what the host reports at a scroll signal: window.innerHeight, window.scrollY
\* and its alias window.pageYOffset, document.documentElement.scrollTop (the
\* same offset) and document.documentElement.scrollHeight. The offset is
\* negative while the viewport is dragged past the top. The heights are 0 or
\* a power of two, so that the division below is exact in floating point too.
Offsets == {-2, 0, 8}

Hosts ==
  {h \in [innerHeight : {0, 1}, scrollY : Offsets, pageYOffset : Offsets,
          scrollTop : Offsets, scrollHeight : {0, 8}] :
     /\ h.pageYOffset = h.scrollY
     /\ h.scrollTop = h.scrollY}

\* window.scrollY || window.pageYOffset || document.documentElement.scrollTop
scrollPosition(h) ==
  IF h.scrollY # 0 THEN h.scrollY
  ELSE IF h.pageYOffset # 0 THEN h.pageYOffset
  ELSE h.scrollTop

\* Math.round(n / d) for d > 0: the nearest integer, a half rounds up
MathRound(n, d) == (2 * n + d) \div (2 * d)

\* a calculateScrollDepth() without the cap
calculateScrollDepthUncapped(h) ==
  IF h.scrollHeight = 0 THEN 0
  ELSE MathRound((scrollPosition(h) + h.innerHeight) * 100, h.scrollHeight)

\* calculateScrollDepth()
calculateScrollDepth(h) ==
  IF h.scrollHeight = 0 THEN 0
  ELSE LET depth == MathRound((scrollPosition(h) + h.innerHeight) * 100,
                              h.scrollHeight)
       IN  IF depth < 100 THEN depth ELSE 100

\* a handleScroll() that takes the current depth for the maximum
handleScrollOverwrites(p, h) ==
  [p EXCEPT !.scrollDepth = calculateScrollDepth(h),
            !.maxScrollDepth = calculateScrollDepth(h)]

\* handleScroll()
handleScroll(p, h) ==
  LET depth == calculateScrollDepth(h)
  IN  [p EXCEPT !.scrollDepth = depth,
                !.maxScrollDepth = IF depth > @ THEN depth ELSE @]

\* ------------------------------------------------------------- Tracker
\* !config.project, !config.endpoint: undefined and '' are both falsy;
\* idle_timeout -1 stands for undefined
Configs ==
  [project : {"undefined", "empty", "set"},
   endpoint : {"undefined", "empty", "set"},
   idle_timeout : {-1} \cup (1..MaxIdleTimeout)]

\* a validation that forgets the endpoint
validateProjectOnly(cfg) == IF cfg.project # "set" THEN "project" ELSE "ok"

\* the two checks the constructor starts with
validate(cfg) ==
  IF cfg.project # "set" THEN "project"
  ELSE IF cfg.endpoint # "set" THEN "endpoint"
  ELSE "ok"

\* config.idle_timeout ?? 30000
idleTimeoutOf(cfg) ==
  IF cfg.idle_timeout = -1 THEN DEFAULT_IDLE_TIMEOUT ELSE cfg.idle_timeout

\* what the constructor and init() create, in their order
Created ==
  <<"cookieManager", "apiClient", "eventQueue", "pageStateManager",
    "autoTracker", "idleCheckInterval", "unloadListeners">>

\* the two signals handlePageUnload() listens to at the window
TeardownSignals == {"beforeunload", "pagehide"}

\* what init() registers with the window: the interval of
\* setupIdleDetection() and the unload handler under the two signals
Registrations == {"idleCheckInterval"} \cup TeardownSignals

PageSpecInit ==
  /\ env = PlainEnv
  /\ call = NoCall
  /\ config \in Configs
  /\ PageInit
  /\ QueueInit
  /\ lsMode = "ok"
  /\ storage \in {NoKey, [kind |-> "array", items |-> <<[id |-> 1, retries |-> 0]>>]}

\* new Tracker(config)
NewTracker ==
  /\ tracker = "none"
  /\ IF validate(config) # "ok"
     THEN /\ tracker' = "threw"
          /\ UNCHANGED <<created, registered, page, rearmAt, queueVars>>
     ELSE /\ tracker' = "built"
          /\ created' = Created
          /\ registered' = Registrations
          /\ live' = TRUE
          /\ Apply(constructor(Cur))
          /\ page' = PageStateManager(clock, idleTimeoutOf(config))
          /\ rearmAt' = clock
          /\ UNCHANGED <<lsMode, restarts>>
  /\ UNCHANGED <<config, clock, credit, signalled, destroyed, sendVars,
                 lastEventId, sessionData, projectData, visitorData, data,
                 calls, escaped, teardown>>

VisibilityChange(v) ==
  /\ tracker = "built"
  /\ Listening(page, "document", "visibilitychange")
  /\ page' = handleVisibilityChange(page, clock, v)
  /\ signalled' = TRUE
  /\ rearmAt' = IF page'.state = "active" THEN clock ELSE rearmAt
  /\ UNCHANGED <<config, tracker, created, clock, credit, destroyed, sendVars, trackerVars,
                 queueVars>>

PageLifecycle(type) ==
  /\ tracker = "built"
  /\ Listening(page, "document", type)
  /\ page' = handlePageLifecycle(page, clock, type)
  /\ signalled' = TRUE
  /\ rearmAt' = IF page'.state = "active" THEN clock ELSE rearmAt
  /\ UNCHANGED <<config, tracker, created, clock, credit, destroyed, sendVars, trackerVars,
                 queueVars>>

\* mousedown, mousemove, keydown or touchstart on the document
UserActivity ==
  /\ tracker = "built"
  /\ \E type \in {"mousedown", "mousemove", "keydown", "touchstart"} :
        Listening(page, "document", type)
  /\ page' = handleUserActivity(page)
  /\ signalled' = TRUE
  /\ rearmAt' = clock
  /\ UNCHANGED <<config, tracker, created, clock, credit, destroyed, sendVars, trackerVars,
                 queueVars>>

\* the viewport scrolls: the scroll event is fired at the document and
\* bubbles to the window, so the document's listener (handleUserActivity)
\* runs and then the window's (handleScroll)
Scroll(h) ==
  /\ tracker = "built"
  /\ LET p1 == IF Listening(page, "document", "scroll")
               THEN handleUserActivity(page) ELSE page
     IN  page' = IF Listening(page, "window", "scroll")
                 THEN handleScroll(p1, h) ELSE p1
  /\ signalled' = TRUE
  /\ rearmAt' = IF Listening(page, "document", "scroll") THEN clock ELSE rearmAt
  /\ UNCHANGED <<config, tracker, created, clock, credit, destroyed, sendVars, trackerVars,
                 queueVars>>

\* a timeout of startIdleTimer() is due
IdleFire ==
  /\ tracker = "built"
  /\ page.idleTimer = 0 \/ 0 \in page.strayTimers
  /\ page' = idleFired(timeoutDue(page), clock)
  /\ UNCHANGED <<config, tracker, created, clock, credit, signalled, rearmAt,
                 destroyed, sendVars, trackerVars, queueVars>>

\* pageStateManager.destroy()
Destroy ==
  /\ tracker = "built"
  /\ ~destroyed
  /\ page' = destroy(page)
  /\ destroyed' = TRUE
  /\ UNCHANGED <<config, tracker, created, clock, credit, signalled, rearmAt,
                 sendVars, trackerVars, queueVars>>

\* one tick passes: no timeout is due
ClockTick ==
  /\ tracker # "threw"
  /\ clock < MaxTime
  /\ page.idleTimer # 0 /\ 0 \notin page.strayTimers
  /\ clock' = clock + 1
  /\ page' = [page EXCEPT !.idleTimer = IF @ > 0 THEN @ - 1 ELSE @,
                          !.strayTimers = {t - 1 : t \in @}]
  /\ credit' = IF page.state = "active" /\ ~page.isIdle THEN credit + 1 ELSE credit
  /\ UNCHANGED <<config, tracker, created, signalled, rearmAt, destroyed,
                 sendVars, trackerVars, queueVars>>

PageNext ==
  \/ NewTracker
  \/ \E v \in Visibilities : VisibilityChange(v)
  \/ \E type \in LifecycleTypes : PageLifecycle(type)
  \/ UserActivity
  \/ IdleFire
  \/ Destroy
  \/ ClockTick

PageSpec == PageSpecInit /\ [][PageNext]_vars

\* the scroll signal among the other signals, for one configuration
ScrollInit ==
  /\ env = PlainEnv
  /\ call = NoCall
  /\ config = PlainConfig
  /\ PageInit
  /\ QueueInit
  /\ lsMode = "ok"
  /\ storage = NoKey

ScrollNext ==
  \/ NewTracker
  \/ \E v \in Visibilities : VisibilityChange(v)
  \/ \E type \in LifecycleTypes : PageLifecycle(type)
  \/ UserActivity
  \/ \E h \in Hosts : Scroll(h)
  \/ IdleFire
  \/ ClockTick

ScrollSpec == ScrollInit /\ [][ScrollNext]_vars

\* ------------------------------------------- Tracker: events and unload
\* the property keys a script sets
SessionKeys == {"session_id"}
ProjectKeys == {"app_version"}
VisitorKeys == {"email"}

\* the Tracker with its EventQueue, as one step starts
TCur ==
  [q |-> Cur, lastEventId |-> lastEventId, sessionData |-> sessionData,
   projectData |-> projectData, visitorData |-> visitorData, data |-> data,
   calls |-> <<>>, escaped |-> FALSE, registered |-> registered,
   teardown |-> teardown]

TApply(m) ==
  /\ Apply(m.q)
  /\ lastEventId' = m.lastEventId
  /\ sessionData' = m.sessionData
  /\ projectData' = m.projectData
  /\ visitorData' = m.visitorData
  /\ data' = m.data
  /\ calls' = m.calls
  /\ escaped' = m.escaped
  /\ registered' = m.registered
  /\ teardown' = m.teardown

\* buildTrackingEvent(event, properties): the standard fields, then the
\* visitor (u_), session (s_) and project (p_) properties of the moment
buildTrackingEvent(m, event) ==
  [event |-> event, endpoint |-> "none", id |-> 0, s |-> m.sessionData,
   p |-> m.projectData, u |-> m.visitorData, idle_start |-> -1]

\* buildIdentifyEvent(properties): the standard fields and the properties
\* handed in, as u_
buildIdentifyEvent(m, properties) ==
  [event |-> "identify", endpoint |-> "none", id |-> 0, s |-> {}, p |-> {},
   u |-> properties, idle_start |-> -1]

\* this.eventQueue.enqueue(endpoint, event)
Tracker_enqueue(m, endpoint, ev) ==
  [m EXCEPT !.q = enqueue(m.q),
            !.data[m.q.nextId] = [ev EXCEPT !.endpoint = endpoint],
            !.calls = Append(@, "enqueue")]

\* Tracker.generateEventId(): an id no event has had
generateEventId(m) == m.lastEventId + 1

\* Tracker.track(event, properties)
Tracker_track(m) ==
  LET ev == buildTrackingEvent(m, "track")
      id == IF ev.id # 0 THEN ev.id ELSE generateEventId(m)
  IN  Tracker_enqueue([m EXCEPT !.lastEventId = id], "/track/",
                      [ev EXCEPT !.id = id])

\* Tracker.identify(properties)
Tracker_identify(m, properties) ==
  Tracker_enqueue([m EXCEPT !.visitorData = @ \cup properties], "/identify",
                  buildIdentifyEvent(m, properties))

\* setSessionProperties(properties)
setSessionProperties(m, properties) ==
  [m EXCEPT !.sessionData = @ \cup properties]

\* setProjectProperties(properties)
setProjectProperties(m, properties) ==
  [m EXCEPT !.projectData = @ \cup properties]

\* a clearSessionProperties() that empties the project properties as well
clearAllProperties(m) ==
  [m EXCEPT !.sessionData = {}, !.projectData = {},
            !.calls = Append(@, "clearSessionProperties")]

\* clearSessionProperties()
clearSessionProperties(m) ==
  [m EXCEPT !.sessionData = {},
            !.calls = Append(@, "clearSessionProperties")]

\* detectSessionEnd()
detectSessionEnd(m) == clearSessionProperties(m)

\* sendFinalEvent()
sendFinalEvent(m) ==
  LET finalEvent == buildTrackingEvent(m, "page_unload")
  IN  IF m.lastEventId # 0
      THEN Tracker_enqueue(m, "/update", [finalEvent EXCEPT !.id = m.lastEventId])
      ELSE Tracker_enqueue(m, "/track/", finalEvent)

\* what this.apiClient.sendEvent(endpoint, data, true) comes to on the host h
beaconResult(h) ==
  LET c == sendEvent(h, TRUE)
  IN  IF c.phase = "rejected" THEN "fail"
      ELSE IF c.syncXhr > 0 THEN "xhr" ELSE "beacon"

\* this.eventQueue.flush()
Tracker_flush(m, res) ==
  [m EXCEPT !.q = flush(m.q, [i \in 1..Len(m.q.queue) |-> res]),
            !.calls = Append(@, "flush")]

\* the step of the unload handler in which host code raises an exception, if
\* any does; it is raised before the step has changed anything
Raises == {"none", "sendFinalEvent", "flush", "detectSessionEnd"}

raise(m) == [m EXCEPT !.escaped = TRUE]

\* a try block that flushes the queue before it queues the final event
unloadStepsFlushFirst(m, res, raises) ==
  detectSessionEnd(sendFinalEvent(Tracker_flush(m, res)))

\* the try block of the unload handler
unloadSteps(m, res, raises) ==
  IF raises = "sendFinalEvent" THEN raise(m)
  ELSE LET m1 == sendFinalEvent(m)
       IN  IF raises = "flush" THEN raise(m1)
           ELSE LET m2 == Tracker_flush(m1, res)
                IN  IF raises = "detectSessionEnd" THEN raise(m2)
                    ELSE detectSessionEnd(m2)

\* an unload handler with no try around its steps
unloadHandlerUnguarded(m, res, raises) == unloadSteps(m, res, raises)

\* this.unloadHandler: try { the steps } catch { console.warn }
unloadHandler(m, res, raises) ==
  LET r == unloadSteps(m, res, raises)
  IN  IF r.escaped
      THEN [r EXCEPT !.escaped = FALSE, !.q = Warn(@, "unload-error", 0)]
      ELSE r

\* checkIdleState(), the callback of the 5 s interval
checkIdleState(m, p) ==
  IF p.isIdle /\ m.lastEventId # 0
  THEN Tracker_enqueue(m, "/update",
         [buildTrackingEvent(m, "idle_update") EXCEPT
            !.idle_start = p.idleStartTime, !.id = m.lastEventId])
  ELSE m

\* a Tracker with an idle timeout of one tick, on a page with nothing stored
QuickConfig ==
  [project |-> "set", endpoint |-> "set", idle_timeout |-> 1]

TrackerInit ==
  /\ env = PlainEnv
  /\ call = NoCall
  /\ config = QuickConfig
  /\ PageInit
  /\ QueueInit
  /\ lsMode = "ok"
  /\ storage = NoKey

\* the room the queue of this model has for one more event
Room == nextId \in EventId /\ nextId <= MaxTracked

TrackerTrack ==
  /\ tracker = "built"
  /\ Room
  /\ TApply(Tracker_track(TCur))
  /\ UNCHANGED <<live, lsMode, restarts, sendVars, pageVars>>

TrackerIdentify ==
  /\ tracker = "built"
  /\ Room
  /\ TApply(Tracker_identify(TCur, VisitorKeys))
  /\ UNCHANGED <<live, lsMode, restarts, sendVars, pageVars>>

SetSessionProperties ==
  /\ tracker = "built"
  /\ TApply(setSessionProperties(TCur, SessionKeys))
  /\ UNCHANGED <<live, lsMode, restarts, sendVars, pageVars>>

SetProjectProperties ==
  /\ tracker = "built"
  /\ TApply(setProjectProperties(TCur, ProjectKeys))
  /\ UNCHANGED <<live, lsMode, restarts, sendVars, pageVars>>

ClearSessionProperties ==
  /\ tracker = "built"
  /\ TApply(clearSessionProperties(TCur))
  /\ UNCHANGED <<live, lsMode, restarts, sendVars, pageVars>>

\* Tracker.destroy(): the unload handler is taken back from both signals,
\* with the function that was registered; the interval of
\* setupIdleDetection(), whose id was not kept, is not cleared
Tracker_destroy(m) ==
  [m EXCEPT !.registered = @ \ TeardownSignals,
            !.calls = Append(@, "destroy")]

\* beforeunload or pagehide at the window: this.unloadHandler runs if it is
\* still registered for the signal. A teardown fires beforeunload first, if
\* it fires it, and each signal once.
PageUnload(raises) ==
  /\ tracker = "built"
  /\ Room
  /\ \E type \in TeardownSignals :
        /\ type \in registered
        /\ type \notin teardown
        /\ type = "beforeunload" => teardown = {}
        /\ TApply([unloadHandler(TCur, beaconResult(env), raises) EXCEPT
                     !.teardown = @ \cup {type}])
  /\ UNCHANGED <<live, lsMode, restarts, sendVars, pageVars>>

\* the navigation is cancelled after beforeunload: the page stays
StayOnPage ==
  /\ tracker = "built"
  /\ teardown = {"beforeunload"}
  /\ teardown' = {}
  /\ UNCHANGED <<live, queue, retries, processing, timers, loopWait,
                 timerWait, sent, accepted, beacons, flushFailed, order,
                 loaded, storage, lsMode, warned, threw, delivered, nextId,
                 restarts, sendVars, pageVars, lastEventId, sessionData,
                 projectData, visitorData, data, calls, escaped, registered>>

\* the script calls tracker.destroy()
TrackerDestroy ==
  /\ tracker = "built"
  /\ ~destroyed
  /\ TApply(Tracker_destroy(TCur))
  /\ page' = destroy(page)
  /\ destroyed' = TRUE
  /\ UNCHANGED <<live, lsMode, restarts, sendVars, config, tracker, created,
                 clock, credit, signalled, rearmAt>>

\* the interval of setupIdleDetection() fires
IdleCheck ==
  /\ tracker = "built"
  /\ "idleCheckInterval" \in registered
  /\ Room
  /\ TApply(checkIdleState(TCur, page))
  /\ UNCHANGED <<live, lsMode, restarts, sendVars, pageVars>>

\* the calls of the script and the unload handler, with a transport that
\* accepts
TrackerNext ==
  \/ NewTracker
  \/ TrackerTrack
  \/ TrackerIdentify
  \/ SetSessionProperties
  \/ SetProjectProperties
  \/ ClearSessionProperties
  \/ \E raises \in Raises : PageUnload(raises)
  \/ StayOnPage
  \/ LoopSendAccept

TrackerSpec == TrackerInit /\ [][TrackerNext]_vars

\* the periodic idle check on a page that turns idle and active again
IdleCheckNext ==
  \/ NewTracker
  \/ TrackerTrack
  \/ IdleCheck
  \/ UserActivity
  \/ IdleFire
  \/ ClockTick
  \/ LoopSendAccept

IdleCheckSpec == TrackerInit /\ [][IdleCheckNext]_vars

\* a page on which the script destroys its tracker
DestroyNext ==
  \/ NewTracker
  \/ TrackerTrack
  \/ TrackerDestroy
  \/ IdleCheck
  \/ \E raises \in Raises : PageUnload(raises)
  \/ StayOnPage
  \/ IdleFire
  \/ ClockTick
  \/ LoopSendAccept

DestroySpec == TrackerInit /\ [][DestroyNext]_vars

TypeOK ==
  /\ queue \in Seq(EventId)
  /\ processing \in BOOLEAN
  /\ nextId - 1 \in {0} \cup EventId

\* ------------------------------------------------------------ the claims
InQueue(e) == \E i \in 1..Len(queue) : queue[i] = e

\* the reliable sends for e that are still pending
PendingOn(e) == timerWait[e] + (IF loopWait = e THEN 1 ELSE 0)

\* the reliable sends for e the transport has rejected so far
Rejected(e) == sent[e] - accepted[e] - PendingOn(e)

\* C1: with a transport that accepts every attempt and only enqueue calls,
\* the transport sees the events once each and in push order: the queue is
\* always a suffix of the push order and never grows back, a send starts
\* only for the head of the queue and only when the head has not been sent
\* before, the head leaves the queue only when its one send is accepted, and
\* nothing else leaves it; once
\* the drain has ended the queue is empty and storage holds no snapshot.
C1_FifoAllAccepted ==
  /\ [](live =>
         /\ \E k \in 0..Len(order) : queue = SubSeq(order, k + 1, Len(order))
         /\ \A e \in EventId : sent[e] <= 1 /\ timerWait[e] = 0
         /\ \A i \in 2..Len(queue) : sent[queue[i]] = 0
         /\ loopWait # 0 => (queue # <<>> /\ loopWait = Head(queue))
         /\ ~processing => /\ queue = <<>>
                            /\ loopWait = 0
                            /\ storage \in {NoKey, EmptyText})
  /\ [][(live /\ live') =>
          /\ \A e \in EventId :
               sent'[e] > sent[e] =>
                  /\ sent[e] = 0
                  /\ loopWait' = e
                  /\ queue' # <<>> /\ e = Head(queue')
          /\ Len(order') - Len(queue') >= Len(order) - Len(queue)
          /\ Len(queue') < Len(queue) =>
               /\ queue' = Tail(queue)
               /\ loopWait = Head(queue)
               /\ accepted'[Head(queue)] = 1
               /\ sent'[Head(queue)] = 1]_vars

C1_Witness ==
  /\ live /\ ~processing
  /\ Len(order) = MaxEvents
  /\ Len(loaded) = 0
  /\ accepted[order[Len(order)]] = 1
  /\ queue = <<>>

\* C2: an event rejected fewer than maxRetries times and accepted is accepted
\* exactly once, and is no longer in the queue.
C2_AcceptedOnce ==
  \A e \in EventId :
     (live /\ Rejected(e) < maxRetries /\ accepted[e] >= 1) =>
        (accepted[e] = 1 /\ ~InQueue(e))

\* C3: the step in which an event's retry counter reaches maxRetries leaves
\* the event out of the queue and in the persisted snapshot (storage working).
C3_ExhaustedIsPersisted ==
  [][\A e \in EventId :
       (lsMode = "ok" /\ live /\ live' /\ retries[e] < maxRetries
          /\ retries'[e] >= maxRetries) =>
            (~InQueue(e)' /\ e \in StoredIds(storage'))]_vars

\* C4: the step that records a rejection of e which does not exhaust its
\* retries (and so schedules the backoff timer) starts no new attempt for e:
\* the next attempt waits for that timer.
C4_ReattemptWaitsForTimer ==
  [][\A e \in EventId :
       (live /\ live' /\ retries'[e] > retries[e] /\ retries'[e] < maxRetries)
          => sent'[e] = sent[e]]_vars

\* the place of e in the push order o
Pos(o, e) == CHOOSE i \in 1..Len(o) : o[i] = e

\* C5: when a reliable attempt starts for an event, no event pushed before it
\* is still in the queue.
C5_NoOvertaking ==
  [][\A e \in EventId :
       (live /\ live' /\ sent'[e] > sent[e]) =>
          /\ InQueue(e)'
          /\ \A i \in 1..Len(queue') : Pos(order', queue'[i]) >= Pos(order', e)]_vars

C5_Witness ==
  /\ live
  /\ Len(order) >= 2
  /\ retries[order[1]] >= 1
  /\ sent[order[2]] >= 1

\* C6: while the drain loop runs, process() changes nothing of the queue (it
\* issues no send and arms no timer), and enqueue() only appends the new event
\* to the tail.
C6_NoSecondDrain ==
  [][processing =>
       /\ Process => /\ UNCHANGED <<queue, processing, loopWait, timerWait,
                                     timers, storage, order, nextId>>
                      /\ \A e \in EventId : sent'[e] <= sent[e]
       /\ Enqueue => /\ queue' = Append(queue, nextId)
                      /\ processing'
                      /\ UNCHANGED <<loopWait, timerWait, timers, storage>>
                      /\ \A e \in EventId : sent'[e] <= sent[e]]_vars

C6_Witness ==
  /\ live /\ processing
  /\ Len(queue) >= 2
  /\ loopWait = queue[1]
  /\ sent[queue[2]] = 0
  /\ Len(loaded) = 0

Malformed(text) == text.kind \in {"empty", "garbage", "noniterable"}

\* C8: constructing over a malformed snapshot does not throw, clears the key,
\* warns and leaves the queue empty.
C8_MalformedDiscarded ==
  [][(~live /\ live' /\ Malformed(storage)) =>
       /\ ~threw'
       /\ storage' = NoKey
       /\ <<"load-failed", 0>> \in warned'
       /\ queue' = <<>>]_vars

\* C9: with localStorage unavailable no step throws, no step writes the
\* storage, and the drain goes on: it stops only on an empty queue.
C9_UnavailableIsNoOp ==
  [][lsMode = "unavailable" =>
       /\ ~threw'
       /\ storage' = storage
       /\ (live' /\ ~processing') => queue' = <<>>]_vars

C9_Witness ==
  /\ live
  /\ lsMode = "unavailable"
  /\ Len(order) >= 2
  /\ <<"exhausted", order[1]>> \in warned
  /\ <<"ls-unavailable", 0>> \in warned
  /\ loopWait = order[2]

\* C10: a flush() whose best-effort submissions all succeed leaves the queue
\* empty and no snapshot under the storage key.
C10_FlushLeavesNoSnapshot ==
  [][(live /\ live' /\ beacons' # <<>> /\ flushFailed' = {}) =>
       (queue' = <<>> /\ storage'.kind # "array")]_vars

\* C11: a flush() in which the best-effort submission of some events fails
\* leaves exactly those events in the persisted snapshot (storage working).
C11_FailedFlushSpooled ==
  [][(live /\ live' /\ lsMode = "ok" /\ Flush /\ flushFailed' # {}) =>
        StoredIds(storage') = flushFailed']_vars

\* C12: flush() submits the events of the queue as it is at the call, in
\* best-effort mode, once each and in queue order, and empties the queue.
C12_FlushSubmitsQueue ==
  [][(live /\ Flush) =>
        /\ beacons' = queue
        /\ \A i, j \in 1..Len(beacons') : beacons'[i] = beacons'[j] => i = j
        /\ \A e \in EventId : sent'[e] <= sent[e]]_vars

C12_Witness ==
  /\ live
  /\ Len(beacons) >= 2
  /\ loopWait = beacons[1]
  /\ queue = <<>>

\* C13: track() and identify() return normally whatever the transport and
\* the storage do: the call only appends the event, and no step of the queue
\* (a send rejected, retries exhausted, a write to storage failing) lets an
\* exception escape.
C13_TrackNeverThrows ==
  /\ [](~threw)
  /\ [][(live /\ (Track \/ Identify)) =>
          (~threw' /\ queue' = Append(queue, nextId) /\ storage' = storage)]_vars

C13_Witness ==
  /\ live
  /\ lsMode = "quota"
  /\ Len(queue) = 2
  /\ retries[queue[1]] = maxRetries - 1
  /\ loopWait = queue[1]
  /\ nextId = queue[2] + 1
  /\ ~threw

\* C15: in reliable mode the promise of sendEvent resolves exactly when the
\* response status is in 200..299, and rejects on every other status, on a
\* network error, on a timeout and when XMLHttpRequest itself throws; the call
\* never throws, and it makes one asynchronous request and no other.
C15_ReliableSettles ==
  /\ [](~call.threw)
  /\ [][/\ \A status \in Statuses :
             XhrLoad(status) =>
                call'.phase = (IF status \in 200..299 THEN "resolved" ELSE "rejected")
        /\ XhrError => call'.phase = "rejected"
        /\ XhrTimeout => call'.phase = "rejected"
        /\ SendEvent(FALSE) =>
             /\ call'.phase = (IF env.xhrThrows THEN "rejected" ELSE "pending")
             /\ call'.asyncXhr = 1 /\ call'.syncXhr = 0 /\ call'.beacon = 0]_vars

C15_Witness ==
  /\ ~call.useBeacon
  /\ call.asyncXhr = 1
  /\ ~env.xhrThrows
  /\ call.phase = "resolved"

\* the one-way submission exists and takes the payload
BeaconAccepts == env.navigator = "beacon" /\ env.sendBeacon = "true"

\* C16: in best-effort mode sendEvent submits through sendBeacon when it
\* exists, and is done when sendBeacon takes the payload; otherwise it makes
\* exactly one blocking request, whose status settles the promise.  No
\* blocking request is made in any other case, and no asynchronous one in
\* this mode.
C16_BestEffortFallback ==
  /\ [](call.syncXhr > 0 => (call.useBeacon /\ ~BeaconAccepts /\ call.syncXhr = 1))
  /\ [][SendEvent(TRUE) =>
          /\ call'.asyncXhr = 0
          /\ call'.beacon = (IF env.navigator = "beacon" THEN 1 ELSE 0)
          /\ BeaconAccepts => (call'.syncXhr = 0 /\ call'.phase = "resolved")
          /\ ~BeaconAccepts =>
               /\ call'.syncXhr = 1
               /\ call'.phase = (IF ~env.xhrThrows /\ env.syncStatus \in 200..299
                                 THEN "resolved" ELSE "rejected")]_vars

C16_Witness ==
  /\ call.useBeacon
  /\ env.navigator = "beacon"
  /\ env.sendBeacon = "false"
  /\ call.beacon = 1
  /\ call.syncXhr = 1
  /\ call.phase = "rejected"

\* C14: new Tracker(config) with no project or no endpoint ends in the
\* configuration error with nothing created: no component, no
\* PageStateManager (and so no listener and no idle timer), no EventQueue (the
\* stored snapshot is not touched).
C14_ConfigErrorCreatesNothing ==
  [][(tracker = "none" /\ tracker' # "none"
        /\ (config.project # "set" \/ config.endpoint # "set")) =>
          /\ tracker' = "threw"
          /\ created' = <<>>
          /\ page' = NoPage
          /\ ~live'
          /\ UNCHANGED queueVars]_vars

C14_Witness ==
  /\ tracker = "threw"
  /\ config.project = "set"
  /\ config.endpoint = "empty"
  /\ storage.kind = "array"

\* C17: the lifecycle state starts as active, and whatever it is, a
\* visibility change sets it to active (visible), hidden (hidden) or passive
\* (any other value), freeze to frozen, resume and pageshow to active,
\* pagehide to terminated.
C17_SignalSetsState ==
  [][/\ (tracker = "none" /\ tracker' = "built") => page'.state = "active"
     /\ VisibilityChange("visible") => page'.state = "active"
     /\ VisibilityChange("hidden") => page'.state = "hidden"
     /\ VisibilityChange("prerender") => page'.state = "passive"
     /\ PageLifecycle("freeze") => page'.state = "frozen"
     /\ PageLifecycle("resume") => page'.state = "active"
     /\ PageLifecycle("pageshow") => page'.state = "active"
     /\ PageLifecycle("pagehide") => page'.state = "terminated"]_vars

C17_Witness ==
  /\ tracker = "built"
  /\ page.state = "active"
  /\ page.isIdle
  /\ page.stateStartTime > page.idleStartTime
  /\ page.idleStartTime > page.pageStartTime

\* C18 as claimed: once the lifecycle state is terminated it stays
\* terminated.
C18_TerminatedIsTerminal ==
  [][(tracker = "built" /\ page.state = "terminated") =>
        page'.state = "terminated"]_vars

\* C18 as amended: the terminated state is left only by a later visibility
\* change, freeze, resume or pageshow; an activity signal, the idle timer,
\* the passage of time and another pagehide leave it terminated.
C18_TerminatedUntilSignal ==
  [][(tracker = "built" /\ page.state = "terminated"
        /\ page'.state # "terminated") =>
          \/ \E v \in Visibilities : VisibilityChange(v)
          \/ \E type \in LifecycleTypes \ {"pagehide"} : PageLifecycle(type)]_vars

C18_Witness ==
  /\ tracker = "built"
  /\ page.state = "terminated"
  /\ page.isIdle
  /\ page.idleStartTime > page.stateStartTime
  /\ clock > page.idleStartTime

\* C19: getActiveDuration() is the time during which the lifecycle state was
\* active and the idle flag false.
C19_ActiveDurationIsCredit ==
  tracker = "built" => getActiveDuration(page, clock) = credit

\* C20: with no signal (and no destroy()) since construction, from
\* idle_timeout after construction on getActiveDuration() is idle_timeout.
C20_QuietPageStopsAtIdle ==
  (tracker = "built" /\ ~signalled /\ ~destroyed
     /\ clock - page.pageStartTime >= page.idleTimeout) =>
        getActiveDuration(page, clock) = page.idleTimeout

C20_Witness ==
  /\ tracker = "built"
  /\ ~signalled
  /\ page.isIdle
  /\ clock >= page.idleStartTime + 2
  /\ page.pageStartTime > 0

\* C21: the idle flag becomes true only as idle_timeout has passed since the
\* last activity signal, the last handler that left the state active and the
\* construction, and the idle start recorded with it is that moment; after an
\* activity signal and after an entry into active exactly one idle timer is
\* pending, a fresh one; and never more than one idle timer is pending.
C21_IdleOnlyAfterQuietTimeout ==
  /\ [](tracker = "built" => PendingTimers(page) <= 1)
  /\ [][/\ (tracker = "built" /\ ~page.isIdle /\ page'.isIdle) =>
             /\ page'.idleStartTime = clock
             /\ clock - rearmAt >= page.idleTimeout
        /\ (\/ UserActivity
            \/ \E v \in Visibilities :
                 VisibilityChange(v) /\ page'.state = "active"
            \/ \E type \in LifecycleTypes :
                 PageLifecycle(type) /\ page'.state = "active") =>
             /\ page'.idleTimer = page.idleTimeout
             /\ PendingTimers(page') = 1]_vars

C21_Witness ==
  /\ tracker = "built"
  /\ page.isIdle
  /\ page.state = "active"
  /\ rearmAt > page.pageStartTime + 1
  /\ page.idleStartTime = rearmAt + page.idleTimeout
  /\ page.idleTimer = -1

\* C22 as claimed: an activity signal (pointer-down, pointer-move, key-down,
\* touch-start or scroll) that arrives while the page is idle clears the
\* idle flag and the idle start, rearms the idle timer and leaves the
\* lifecycle state, the current scroll depth and the maximum scroll depth
\* as they were.
C22_ActivityKeepsScrollDepth ==
  [][(page.isIdle /\ (UserActivity \/ \E h \in Hosts : Scroll(h))) =>
        /\ ~page'.isIdle
        /\ page'.idleStartTime = -1
        /\ page'.idleTimer = page.idleTimeout
        /\ page'.state = page.state
        /\ page'.scrollDepth = page.scrollDepth
        /\ page'.maxScrollDepth = page.maxScrollDepth]_vars

\* C22 as amended: the same, with the two scroll depths left as they were
\* by every activity signal but the scroll.
C22_ActivityClearsIdle ==
  [][(page.isIdle /\ (UserActivity \/ \E h \in Hosts : Scroll(h))) =>
        /\ ~page'.isIdle
        /\ page'.idleStartTime = -1
        /\ page'.idleTimer = page.idleTimeout
        /\ page'.state = page.state
        /\ UserActivity =>
             /\ page'.scrollDepth = page.scrollDepth
             /\ page'.maxScrollDepth = page.maxScrollDepth]_vars

\* the page was idle and an activity signal has cleared the flag (the idle
\* period shows in the time getActiveDuration() counts beyond the time the
\* page was active and not idle), with a scroll depth below the maximum
C22_Witness ==
  /\ tracker = "built"
  /\ page.state = "hidden"
  /\ ~page.isIdle
  /\ page.idleStartTime = -1
  /\ page.idleTimer = page.idleTimeout
  /\ page.activeDuration > credit
  /\ page.maxScrollDepth = 100
  /\ page.scrollDepth = 13

\* the offset, the viewport height and the document height are not negative
NonNegative(h) ==
  h.scrollY >= 0 /\ h.innerHeight >= 0 /\ h.scrollHeight >= 0

DepthsInRange(p) ==
  /\ p.scrollDepth >= 0 /\ p.scrollDepth <= 100
  /\ p.maxScrollDepth >= 0 /\ p.maxScrollDepth <= 100

\* C23: a new PageStateManager has both scroll depths within 0..100, and
\* from depths within 0..100 a scroll signal whose offset, viewport height
\* and document height are not negative, and every other signal, leads to
\* depths within 0..100.
C23_DepthsWithinRange ==
  [][/\ (tracker = "none" /\ tracker' = "built") => DepthsInRange(page')
     /\ (tracker = "built" /\ DepthsInRange(page)
           /\ ~(\E h \in Hosts : ~NonNegative(h) /\ Scroll(h))) =>
          DepthsInRange(page')]_vars

C23_Witness ==
  /\ tracker = "built"
  /\ page.scrollDepth = 13
  /\ page.maxScrollDepth = 100
  /\ page.isIdle

\* C24: no step lowers the maximum scroll depth; a scroll signal leaves it
\* at the larger of the previous maximum and the new current depth; and only
\* a scroll signal changes it.
C24_MaxDepthMonotone ==
  [][tracker = "built" =>
       /\ page'.maxScrollDepth >= page.maxScrollDepth
       /\ (\E h \in Hosts : Scroll(h)) =>
            page'.maxScrollDepth =
              IF page'.scrollDepth > page.maxScrollDepth
              THEN page'.scrollDepth ELSE page.maxScrollDepth
       /\ page'.maxScrollDepth # page.maxScrollDepth =>
            \E h \in Hosts : Scroll(h)]_vars

C24_Witness ==
  /\ tracker = "built"
  /\ page.maxScrollDepth = 13
  /\ page.scrollDepth = 0
  /\ page.state = "frozen"
  /\ page.isIdle

\* x held within lo..hi
Clamp(x, lo, hi) == IF x < lo THEN lo ELSE IF x > hi THEN hi ELSE x

\* C25: a scroll signal leaves as the current depth
\* clamp(round((scrollOffset + viewportHeight) * 100 / documentHeight), 0, 100),
\* and 0 when documentHeight is 0.
C25_DepthIsClampedRatio ==
  [][\A h \in Hosts :
       Scroll(h) =>
         page'.scrollDepth =
           IF h.scrollHeight = 0 THEN 0
           ELSE Clamp(MathRound((h.scrollY + h.innerHeight) * 100,
                                h.scrollHeight), 0, 100)]_vars

\* C26: when beforeunload or pagehide fires and no step of the handler
\* raises, the handler calls enqueue, flush and clearSessionProperties in
\* this order and nothing else: it queues one event, the page_unload event,
\* under /update with the last event id if there is one and under /track/
\* with no id otherwise; the event carries the session properties of before
\* the handler, flush() submits it after the events queued before it, and
\* the session properties are empty afterwards.
C26_UnloadEnqueuesFlushesClears ==
  [][PageUnload("none") =>
       /\ calls' = <<"enqueue", "flush", "clearSessionProperties">>
       /\ nextId' = nextId + 1
       /\ data' = [data EXCEPT ![nextId] =
                     [event |-> "page_unload",
                      endpoint |-> IF lastEventId # 0 THEN "/update" ELSE "/track/",
                      id |-> lastEventId, s |-> sessionData, p |-> projectData,
                      u |-> visitorData, idle_start |-> -1]]
       /\ beacons' = queue \o <<nextId>>
       /\ queue' = <<>>
       /\ sessionData' = {}]_vars

C26_Witness ==
  /\ calls = <<"enqueue", "flush", "clearSessionProperties">>
  /\ lastEventId = 1
  /\ Len(beacons) = 2
  /\ data[beacons[1]].endpoint = "/track/"
  /\ data[beacons[2]].endpoint = "/update"
  /\ data[beacons[2]].id = 1
  /\ data[beacons[2]].s = SessionKeys
  /\ sessionData = {}

\* C27: the unload handler (when none of its steps raises) and
\* clearSessionProperties() leave the session properties empty and the
\* project and visitor properties as they were, and an event that track()
\* builds carries the session and project properties of that moment: after
\* them, the same p_ entries and no s_ entry.
C27_SessionClearedProjectKept ==
  [][/\ (PageUnload("none") \/ ClearSessionProperties) =>
          /\ sessionData' = {}
          /\ projectData' = projectData
          /\ visitorData' = visitorData
     /\ TrackerTrack =>
          /\ data'[nextId].s = sessionData
          /\ data'[nextId].p = projectData
          /\ data'[nextId].u = visitorData]_vars

C27_Witness ==
  /\ sessionData = {}
  /\ data[2].event = "page_unload"
  /\ data[2].s = SessionKeys
  /\ data[2].p = ProjectKeys
  /\ data[3].event = "track"
  /\ data[3].s = {}
  /\ data[3].p = ProjectKeys
  /\ data[3].u = VisitorKeys

\* C28: whichever step of the unload handler raises (building and queueing
\* the final event, the flush, the clearing of the session properties), the
\* handler returns normally: the exception is logged and does not reach the
\* host.
C28_UnloadNeverThrows ==
  [][\A raises \in Raises :
       PageUnload(raises) =>
         /\ ~escaped'
         /\ raises # "none" => <<"unload-error", 0>> \in warned']_vars

C28_Witness ==
  /\ <<"unload-error", 0>> \in warned
  /\ calls = <<"enqueue", "flush">>
  /\ sessionData = SessionKeys
  /\ ~escaped

\* the idle period the page is in has been reported by an update event
Reported ==
  \E e \in EventId : /\ data[e].event = "idle_update"
                     /\ data[e].idle_start = page.idleStartTime

\* C29: a tick of the periodic idle check queues an update event, under
\* /update with the last event id, exactly when the page is idle, a last
\* event id exists and the idle period has not been reported yet; every
\* other tick queues nothing.
C29_OneUpdatePerIdlePeriod ==
  [][IdleCheck =>
       IF page.isIdle /\ lastEventId # 0 /\ ~Reported
       THEN /\ nextId' = nextId + 1
            /\ data'[nextId].endpoint = "/update"
            /\ data'[nextId].id = lastEventId
            /\ data'[nextId].idle_start = page.idleStartTime
       ELSE nextId' = nextId /\ data' = data]_vars

\* C30: destroy() leaves no idle timer pending and no listener of the
\* PageStateManager registered, and from then on no step changes the
\* PageState or starts a timer.
C30_DestroyedStaysQuiet ==
  [][/\ Destroy =>
          /\ PendingTimers(page') = 0
          /\ page'.listeners = {}
     /\ destroyed =>
          /\ page'.state = page.state
          /\ page'.isIdle = page.isIdle
          /\ page'.idleStartTime = page.idleStartTime
          /\ page'.activeDuration = page.activeDuration
          /\ page'.stateStartTime = page.stateStartTime
          /\ page'.scrollDepth = page.scrollDepth
          /\ page'.maxScrollDepth = page.maxScrollDepth
          /\ PendingTimers(page') = 0]_vars

\* C31: once Tracker.destroy() has run, the interval of the idle check
\* queues no further event and neither teardown signal runs the unload
\* handler.
C31_DestroyedTrackerIsQuiet ==
  [][destroyed =>
       /\ IdleCheck => UNCHANGED <<queue, nextId, data>>
       /\ ~(\E raises \in Raises : PageUnload(raises))]_vars

\* with every reliable send settling, a queue that holds events, or whose
\* drain runs, comes to be empty with the processing flag false, so every
\* event that was in it has left it; and a non-empty queue always has the
\* drain loop awaiting a send, so the drain goes on to the later events when
\* a head is exhausted
QueueDrains ==
  /\ [](live /\ queue # <<>> => processing /\ loopWait # 0)
  /\ (live /\ (processing \/ queue # <<>>)) ~> (~processing /\ queue = <<>>)

\* e leaves the in-memory queue in this step
Leaves(e) == live /\ live' /\ InQueue(e) /\ ~InQueue(e)'

\* the step accepts e, exhausts the retries of e, or is a flush() that
\* submits e
OwnCause(e) ==
  \/ accepted'[e] > accepted[e]
  \/ retries'[e] > retries[e] /\ retries'[e] >= maxRetries
  \/ \E i \in 1..Len(beacons') : beacons'[i] = e

\* C32: with every reliable send settling, every event in the queue leaves
\* it, and leaves it accepted, exhausted or flushed; the drain goes on after
\* an exhausted head and ends with the flag false and the queue empty.
C32_EventsLeaveForCause ==
  /\ QueueDrains
  /\ [][\A e \in EventId : Leaves(e) => OwnCause(e)]_vars

C34_OneAttemptOutstanding ==
  live => \A e, f \in EventId :
            /\ PendingOn(e) <= 1
            /\ (PendingOn(e) > 0 /\ PendingOn(f) > 0) => e = f

\* C35: an event leaves the in-memory queue only in a step that accepts that
\* event, exhausts that event's retries or flushes it; an event that was
\* never attempted is not removed by the completion of another's attempt.
C35_RemovedForOwnCause ==
  [][\A e \in EventId : Leaves(e) => OwnCause(e)]_vars

C37_NoReplayOfDelivered ==
  /\ [](/\ (live /\ ~processing /\ queue = <<>>) =>
             StoredIds(storage) \cap delivered = {}
        /\ \A i, j \in 1..Len(StoredEvents(storage)) :
             StoredEvents(storage)[i].id = StoredEvents(storage)[j].id => i = j)
  /\ [][(~live /\ live') => \A e \in EventId : InQueue(e)' => e \notin delivered]_vars

\* C38: no event that flush() submits in best-effort mode has been handed to
\* the transport in reliable mode by the drain loop; the final event of the
\* unload handler is submitted once.
C38_NoDoubleSubmission ==
  live => \A i \in 1..Len(beacons) : sent[beacons[i]] = 0

\* C39: in one page teardown the unload finalization runs once: when pagehide
\* follows beforeunload no second final event is queued and nothing is
\* flushed again.
C39_OneFinalizationPerTeardown ==
  [][(teardown = {"beforeunload"} /\ teardown' = TeardownSignals) =>
        /\ nextId' = nextId
        /\ calls' = <<>>]_vars

\* C40: the accumulated active duration never decreases, and
\* getActiveDuration() is never more than getDuration(), whatever signals
\* and timer firings the page has seen.
C40_ActiveWithinElapsed ==
  /\ [](tracker = "built" =>
          /\ page.activeDuration >= 0
          /\ getActiveDuration(page, clock) <= getDuration(page, clock))
  /\ [][(tracker = "built" /\ tracker' = "built") =>
          page'.activeDuration >= page.activeDuration]_vars

C40_Witness ==
  /\ tracker = "built"
  /\ signalled
  /\ page.isIdle
  /\ page.state = "active"
  /\ page.activeDuration >= 2
  /\ getActiveDuration(page, clock) < getDuration(page, clock)

====
